---- MODULE Spec2Model ----
(***************************************************************************)
(* clusterloader2: the Poisson-arrival tuning set (poissonLoad.Execute,    *)
(* interArrivalTime) and the etcd metrics measurement                      *)
(* (etcdMetricsMeasurement.Execute, startCollecting, stopAndSummarize).    *)
(*                                                                         *)
(* Time is counted in model ticks; Second ticks make one second.  The      *)
(* machine integer `int` is modelled at a reduced width, MinInt..MaxInt.   *)
(***************************************************************************)
EXTENDS Integers, Sequences, FiniteSets, TLC

\* ------------------------------------------------------------------ bounds
MaxActions == 2
MaxTime == 3
MaxDraw == 1
\* Execute calls made on one etcd measurement, and the largest database size
MaxCalls == 3
MaxSize == 2

\* ------------------------------------------------- constants at model scale
\* time.Second, in ticks
Second == 2
\* the largest value of the machine integer `int` (reduced width)
MaxInt == 7
MinInt == -MaxInt - 1
\* ln 2 in thousandths, and the unit of ExpectedActionsPerSecond (1/1000)
Ln2Milli == 693
Milli == 1000
\* the values of params.ExpectedActionsPerSecond tried, in thousandths of an
\* action per second: 1/s and 0.125/s, both > 0
Rates == {1000, 125}

Max(a, b) == IF a >= b THEN a ELSE b

VARIABLES
  \* ---- poissonLoad.Execute
  actions,            \* the input: actions[k] is how the k-th action behaves
  ExpectedActionsPerSecond, \* rl.params.ExpectedActionsPerSecond, in 1/Milli
  pc,                 \* position of the driving path in Execute
  i,                  \* loop index (1-based)
  actionNextLaunch,   \* the schedule point
  wg,                 \* wait.Group counter
  status,             \* status[k] of the goroutine of action k
  now,                \* the monotonic clock
  crashed,            \* the process was terminated by an unrecovered panic
  launches,           \* history: <<[idx, at, sched]>> one per wg.Start
  samples,            \* history: the durations interArrivalTime returned
  sleepCalls,         \* history: the number of time.Sleep calls
  enteredAt,          \* history: the instant time.Now() returned on entry
  \* ---- etcdMetricsMeasurement
  stopCh,             \* e.stopCh: "open" or "closed"
  pollWg,             \* e.wg counter
  pollers,            \* the goroutines of startCollecting, in start order
  MaxDatabaseSize,    \* e.metrics.MaxDatabaseSize
  buckets,            \* samples converted into e.metrics' histograms
  maxPolled,          \* history: the largest size a successful poll returned
  cpc,                \* position of the caller inside Execute
  calls,              \* Execute calls made so far
  lastAction,         \* the "action" parameter of the latest call
  ret,                \* what the latest call returned
  closePanic          \* close of a closed channel terminated the process

pvars == <<actions, ExpectedActionsPerSecond, pc, i, actionNextLaunch, wg,
           status, now, crashed, launches, samples, sleepCalls, enteredAt>>

evars == <<stopCh, pollWg, pollers, MaxDatabaseSize, buckets, maxPolled, cpc,
           calls, lastAction, ret, closePanic>>

vars == <<pvars, evars>>

\* how an action body can behave: it returns, it panics, or it never returns
Behaviours == {"returns", "panics", "blocks"}

n == Len(actions)

\* --------------------------------------------------------- interArrivalTime
\* rand.Float64() draws p in [0,1).  The draws modelled are p = 1 - 2^-k for
\* k in 0..MaxDraw (k = 0 is p = 0); math.Log(1-p) is then -k * ln 2.
Log1mMilli(k) == -(k * Ln2Milli)

\* float64(time.Second) * (-math.Log(1-p) / MeanRate): a float, here by its
\* integer part (the value is never negative for MeanRate > 0)
Product(MeanRate, k) == (Second * (-Log1mMilli(k)) * Milli) \div (MeanRate * Milli)

\* int(x) of a float: truncation when x is representable; otherwise the
\* result is implementation-dependent (the smallest int on amd64, the largest
\* on arm64)
IntOf(x) == IF x \in MinInt..MaxInt THEN {x} ELSE {MinInt, MaxInt}

\* the set of durations interArrivalTime(MeanRate) can return for draw k
interArrivalTime(MeanRate, k) == IntOf(Product(MeanRate, k))

\* ------------------------------------------------------------------- Init
PInit ==
  /\ actions \in UNION {[1..m -> Behaviours] : m \in 0..MaxActions}
  /\ ExpectedActionsPerSecond \in Rates
  /\ pc = "idle"
  /\ i = 1
  /\ actionNextLaunch = 0
  /\ wg = 0
  /\ status = [k \in 1..n |-> "pending"]
  /\ now = 0
  /\ crashed = FALSE
  /\ launches = <<>>
  /\ samples = <<>>
  /\ sleepCalls = 0
  /\ enteredAt = 0

\* -------------------------------------------------------- the driving path
\* LoopHead with a seeded fault: the loop stops one action early; the loop
\* body runs once even for an empty input
LoopHead_SkipsLast(j) == IF j < n THEN "sleep" ELSE "wait"
LoopHead_AtLeastOnce(j) == IF j <= n \/ j = 1 THEN "sleep" ELSE "wait"

\* for i := range actions: the next position once index j is reached
LoopHead(j) == IF j <= n THEN "sleep" ELSE "wait"

\* var wg wait.Group; actionNextLaunch := time.Now()
Enter ==
  /\ pc = "idle" /\ ~crashed
  /\ actionNextLaunch' = now
  /\ enteredAt' = now
  /\ i' = 1
  /\ pc' = LoopHead(1)
  /\ UNCHANGED <<actions, ExpectedActionsPerSecond, wg, status, now, crashed,
                 launches, samples, sleepCalls,
                 evars>>

\* Sleep with a seeded fault: the call returns without suspending
Sleep_NoSuspend ==
  /\ pc = "sleep" /\ ~crashed
  /\ sleepCalls' = sleepCalls + 1
  /\ pc' = "start"
  /\ UNCHANGED <<actions, ExpectedActionsPerSecond, enteredAt, i, actionNextLaunch, wg,
                 status, now, crashed, launches, samples, evars>>

\* Sleep with a seeded fault: an overdue schedule point is reset to the clock
Sleep_ResetsSchedule ==
  /\ pc = "sleep" /\ ~crashed
  /\ LET d == actionNextLaunch - now
     IN /\ now' = IF d <= 0 THEN now ELSE now + d
        /\ actionNextLaunch' = IF d < 0 THEN now ELSE actionNextLaunch
  /\ sleepCalls' = sleepCalls + 1
  /\ pc' = "start"
  /\ UNCHANGED <<actions, ExpectedActionsPerSecond, enteredAt, i, wg, status,
                 crashed, launches, samples, evars>>

\* time.Sleep(time.Until(actionNextLaunch)): returns at once for d <= 0,
\* else not before d has passed
Sleep ==
  /\ pc = "sleep" /\ ~crashed
  /\ LET d == actionNextLaunch - now
     IN now' = IF d <= 0 THEN now ELSE now + d
  /\ sleepCalls' = sleepCalls + 1
  /\ pc' = "start"
  /\ UNCHANGED <<actions, ExpectedActionsPerSecond, enteredAt, i, actionNextLaunch, wg,
                 status, crashed, launches, samples, evars>>

\* Start with a seeded fault: the action is started only once the earlier ones are over
Start_AfterPrevious ==
  /\ pc = "start" /\ ~crashed
  /\ wg = 0
  /\ wg' = wg + 1
  /\ status' = [status EXCEPT ![i] = "running"]
  /\ launches' = Append(launches, [idx |-> i, at |-> now, sched |-> actionNextLaunch])
  /\ pc' = "advance"
  /\ UNCHANGED <<actions, ExpectedActionsPerSecond, enteredAt, i, actionNextLaunch, now,
                 crashed, samples, sleepCalls, evars>>

\* Start with a seeded fault: the goroutine is started without wg.Add(1) on
\* the driving path
Start_NoAdd ==
  /\ pc = "start" /\ ~crashed
  /\ status' = [status EXCEPT ![i] = "running"]
  /\ launches' = Append(launches, [idx |-> i, at |-> now, sched |-> actionNextLaunch])
  /\ pc' = "advance"
  /\ UNCHANGED <<actions, ExpectedActionsPerSecond, enteredAt, i,
                 actionNextLaunch, wg, now, crashed, samples, sleepCalls, evars>>

\* wg.Start(actions[i]): wg.Add(1); go func() { defer wg.Done(); f() }()
Start ==
  /\ pc = "start" /\ ~crashed
  /\ wg' = wg + 1
  /\ status' = [status EXCEPT ![i] = "running"]
  /\ launches' = Append(launches, [idx |-> i, at |-> now, sched |-> actionNextLaunch])
  /\ pc' = "advance"
  /\ UNCHANGED <<actions, ExpectedActionsPerSecond, enteredAt, i, actionNextLaunch, now,
                 crashed, samples, sleepCalls,
                 evars>>

\* Advance with a seeded fault: the next schedule point is taken from the
\* current clock, not from the previous schedule point
Advance_FromClock ==
  /\ pc = "advance" /\ ~crashed
  /\ \E k \in 0..MaxDraw :
       \E d \in interArrivalTime(ExpectedActionsPerSecond, k) :
         /\ now + d <= MaxTime
         /\ actionNextLaunch' = now + d
         /\ samples' = Append(samples, d)
  /\ i' = i + 1
  /\ pc' = LoopHead(i + 1)
  /\ UNCHANGED <<actions, ExpectedActionsPerSecond, enteredAt, wg, status, now,
                 crashed, launches, sleepCalls, evars>>

\* actionNextLaunch = actionNextLaunch.Add(interArrivalTime(...)); next i
Advance ==
  /\ pc = "advance" /\ ~crashed
  /\ \E k \in 0..MaxDraw :
       \E d \in interArrivalTime(ExpectedActionsPerSecond, k) :
         /\ actionNextLaunch + d <= MaxTime
         /\ actionNextLaunch' = actionNextLaunch + d
         /\ samples' = Append(samples, d)
  /\ i' = i + 1
  /\ pc' = LoopHead(i + 1)
  /\ UNCHANGED <<actions, ExpectedActionsPerSecond, enteredAt, wg, status, now, crashed,
                 launches, sleepCalls,
                 evars>>

\* Wait with a seeded fault: the drain does not block
Wait_NoBarrier ==
  /\ pc = "wait" /\ ~crashed
  /\ pc' = "returned"
  /\ UNCHANGED <<actions, ExpectedActionsPerSecond, enteredAt, i, actionNextLaunch, wg,
                 status, now, crashed, launches, samples, sleepCalls, evars>>

\* wg.Wait(): blocks until the counter is zero
Wait ==
  /\ pc = "wait" /\ ~crashed
  /\ wg = 0
  /\ pc' = "returned"
  /\ UNCHANGED <<actions, ExpectedActionsPerSecond, enteredAt, i, actionNextLaunch, wg,
                 status, now, crashed, launches, samples, sleepCalls,
                 evars>>

\* ------------------------------------------------------ action goroutines
\* ActionReturn with a seeded fault: the goroutine ends without wg.Done()
ActionReturn_NoDone(k) ==
  /\ ~crashed
  /\ status[k] = "running" /\ actions[k] = "returns"
  /\ status' = [status EXCEPT ![k] = "done"]
  /\ UNCHANGED <<actions, ExpectedActionsPerSecond, enteredAt, pc, i, actionNextLaunch,
                 wg, now, crashed, launches, samples, sleepCalls, evars>>

\* f() returns; the deferred wg.Done() runs
ActionReturn(k) ==
  /\ ~crashed
  /\ status[k] = "running" /\ actions[k] = "returns"
  /\ status' = [status EXCEPT ![k] = "done"]
  /\ wg' = wg - 1
  /\ UNCHANGED <<actions, ExpectedActionsPerSecond, enteredAt, pc, i, actionNextLaunch,
                 now, crashed, launches, samples, sleepCalls,
                 evars>>

\* f() panics; the deferred wg.Done() runs while the goroutine unwinds
ActionPanic(k) ==
  /\ ~crashed
  /\ status[k] = "running" /\ actions[k] = "panics"
  /\ status' = [status EXCEPT ![k] = "panicked"]
  /\ wg' = wg - 1
  /\ UNCHANGED <<actions, ExpectedActionsPerSecond, enteredAt, pc, i, actionNextLaunch,
                 now, crashed, launches, samples, sleepCalls,
                 evars>>

\* nothing in the goroutine recovers: the panic reaches the top of the
\* goroutine's stack and the runtime terminates the process
Crash ==
  /\ ~crashed
  /\ \E k \in 1..n : status[k] = "panicked"
  /\ crashed' = TRUE
  /\ UNCHANGED <<actions, ExpectedActionsPerSecond, enteredAt, pc, i, actionNextLaunch,
                 wg, status, now, launches, samples, sleepCalls,
                 evars>>

\* time passes
Tick ==
  /\ ~crashed
  /\ now < MaxTime
  /\ now' = now + 1
  /\ UNCHANGED <<actions, ExpectedActionsPerSecond, enteredAt, pc, i, actionNextLaunch,
                 wg, status, crashed, launches, samples, sleepCalls,
                 evars>>

\* =========================================================== etcd metrics
\* the values of the "action" parameter tried; "reset" is not a known action
ActionValues == {"start", "gather", "reset"}
Providers == {"gce", "gke"}

\* createEtcdMetricsMeasurement
EInit ==
  /\ stopCh = "open"
  /\ pollWg = 0
  /\ pollers = <<>>
  /\ MaxDatabaseSize = 0
  /\ buckets = 0
  /\ maxPolled = 0
  /\ cpc = "idle"
  /\ calls = 0
  /\ lastAction = "none"
  /\ ret = [summaries |-> <<>>, err |-> "none"]
  /\ closePanic = FALSE

\* what one Execute call returns
Return(summaries, err) == [summaries |-> summaries, err |-> err]

\* the caller is between two Execute calls and may make another one
CanCall == cpc = "idle" /\ ~closePanic /\ calls < MaxCalls

\* the parameters Execute reads, in the order it reads them
ParamNames == {"action", "provider", "host", "waitTime"}

\* Execute: reading parameter param fails (util.GetString for "action",
\* GetStringOrDefault for "provider" and "host", GetDurationOrDefault for the
\* "waitTime" of a "start"): the error is returned as it is
ExecuteParamError(action, param) ==
  /\ CanCall
  /\ param = "waitTime" => action = "start"
  /\ calls' = calls + 1
  /\ lastAction' = IF param = "action" THEN "none" ELSE action
  /\ ret' = Return(<<>>, param)
  /\ UNCHANGED <<stopCh, pollWg, pollers, MaxDatabaseSize, buckets, cpc,
                 closePanic,
                 maxPolled, pvars>>

\* startCollecting with a seeded fault: the goroutine is started without e.wg.Add(1)
startCollecting_NoAdd(provider, positive) ==
  /\ pollWg' = pollWg
  /\ pollers' = Append(pollers, [pc |-> "select", provider |-> provider,
                                 positive |-> positive, val |-> 0])

\* startCollecting: e.wg.Add(1); go func() { defer e.wg.Done(); for { select } }
\* positive: whether interval > 0
startCollecting(provider, positive) ==
  /\ pollWg' = pollWg + 1
  /\ pollers' = Append(pollers, [pc |-> "select", provider |-> provider,
                                 positive |-> positive, val |-> 0])

\* Execute, case "start"
ExecuteStart(provider, positive) ==
  /\ CanCall
  /\ calls' = calls + 1
  /\ lastAction' = "start"
  /\ startCollecting(provider, positive)
  /\ ret' = Return(<<>>, "nil")
  /\ UNCHANGED <<stopCh, MaxDatabaseSize, buckets, cpc, closePanic,
                 maxPolled, pvars>>

\* ExecuteUnknown with a seeded fault: an unknown action is treated as "start"
ExecuteUnknown_FallsThrough(action) ==
  /\ CanCall
  /\ action \notin {"start", "gather"}
  /\ calls' = calls + 1
  /\ lastAction' = action
  /\ startCollecting("gce", TRUE)
  /\ ret' = Return(<<>>, "unknown action")
  /\ UNCHANGED <<stopCh, MaxDatabaseSize, buckets, cpc, closePanic,
                 maxPolled, pvars>>

\* Execute, default case
ExecuteUnknown(action) ==
  /\ CanCall
  /\ action \notin {"start", "gather"}
  /\ calls' = calls + 1
  /\ lastAction' = action
  /\ ret' = Return(<<>>, "unknown action")
  /\ UNCHANGED <<stopCh, pollWg, pollers, MaxDatabaseSize, buckets, cpc,
                 closePanic,
                 maxPolled, pvars>>

\* Execute, case "gather": stopAndSummarize begins with close(e.stopCh);
\* closing a closed channel panics
GatherClose ==
  /\ CanCall
  /\ calls' = calls + 1
  /\ lastAction' = "gather"
  /\ IF stopCh = "closed"
       THEN /\ closePanic' = TRUE
            /\ UNCHANGED <<stopCh, cpc>>
       ELSE /\ stopCh' = "closed"
            /\ cpc' = "wait"
            /\ UNCHANGED closePanic
  /\ UNCHANGED <<pollWg, pollers, MaxDatabaseSize, buckets, ret,
                 maxPolled, pvars>>

\* e.wg.Wait()
GatherWait ==
  /\ cpc = "wait" /\ ~closePanic
  /\ pollWg = 0
  /\ cpc' = "collect"
  /\ UNCHANGED <<stopCh, pollWg, pollers, MaxDatabaseSize, buckets, calls,
                 lastAction, ret, closePanic,
                 maxPolled, pvars>>

\* getEtcdMetrics: nil for gke, else the ssh fails or yields samples, found of
\* which are histogram buckets
getEtcdMetrics(provider) ==
  IF provider = "gke" THEN {[err |-> FALSE, found |-> 0]}
  ELSE {[err |-> TRUE, found |-> 0]} \cup {[err |-> FALSE, found |-> f] : f \in 0..1}

\* the one-off collection of stopAndSummarize, and the return of Execute
GatherCollect(provider) ==
  /\ cpc = "collect" /\ ~closePanic
  /\ \E r \in getEtcdMetrics(provider) :
       IF r.err
         THEN /\ ret' = Return(<<>>, "ssh")
              /\ UNCHANGED buckets
         ELSE /\ buckets' = buckets + r.found
              /\ ret' = Return(<<"EtcdMetrics">>, "nil")
  /\ cpc' = "idle"
  /\ UNCHANGED <<stopCh, pollWg, pollers, MaxDatabaseSize, calls, lastAction,
                 closePanic,
                 maxPolled, pvars>>

\* getEtcdDatabaseSize: an error (always for gke: no samples) or the size
getEtcdDatabaseSize(provider) ==
  IF provider = "gke" THEN {[err |-> TRUE, size |-> 0]}
  ELSE {[err |-> TRUE, size |-> 0]} \cup {[err |-> FALSE, size |-> z] : z \in 0..MaxSize}

\* the poller's select takes the timer case: the interval has elapsed.  With
\* the stop channel closed the timer of a positive interval, created on entry
\* to the select, is never the ready case
PollerTimer(g) ==
  /\ ~closePanic
  /\ pollers[g].pc = "select"
  /\ stopCh = "open" \/ ~pollers[g].positive
  /\ pollers' = [pollers EXCEPT ![g].pc = "polling"]
  /\ UNCHANGED <<stopCh, pollWg, MaxDatabaseSize, buckets, cpc, calls,
                 lastAction, ret, closePanic,
                 maxPolled, pvars>>

\* getEtcdDatabaseSize returns; on success the poller reads MaxDatabaseSize
\* and computes math.Max, on an error it continues with the next interval
PollerPoll(g) ==
  /\ ~closePanic
  /\ pollers[g].pc = "polling"
  /\ \E r \in getEtcdDatabaseSize(pollers[g].provider) :
       /\ IF r.err
            THEN pollers' = [pollers EXCEPT ![g].pc = "select"]
            ELSE pollers' = [pollers EXCEPT ![g].pc = "write",
                                            ![g].val = Max(MaxDatabaseSize, r.size)]
       /\ maxPolled' = IF r.err THEN maxPolled ELSE Max(maxPolled, r.size)
  /\ UNCHANGED <<stopCh, pollWg, MaxDatabaseSize, buckets, cpc, calls,
                 lastAction, ret, closePanic, pvars>>

\* e.metrics.MaxDatabaseSize = (the maximum computed)
PollerWrite(g) ==
  /\ ~closePanic
  /\ pollers[g].pc = "write"
  /\ MaxDatabaseSize' = pollers[g].val
  /\ pollers' = [pollers EXCEPT ![g].pc = "select", ![g].val = 0]
  /\ UNCHANGED <<stopCh, pollWg, buckets, cpc, calls, lastAction, ret,
                 closePanic,
                 maxPolled, pvars>>

\* case <-e.stopCh: return; the deferred e.wg.Done() runs
PollerStop(g) ==
  /\ ~closePanic
  /\ pollers[g].pc = "select"
  /\ stopCh = "closed"
  /\ pollers' = [pollers EXCEPT ![g].pc = "exited"]
  /\ pollWg' = pollWg - 1
  /\ UNCHANGED <<stopCh, MaxDatabaseSize, buckets, cpc, calls, lastAction,
                 ret, closePanic,
                 maxPolled, pvars>>

\* no dispatch is running while the measurement is exercised
PIdle ==
  /\ actions = <<>>
  /\ ExpectedActionsPerSecond = Milli
  /\ pc = "idle"
  /\ i = 1
  /\ actionNextLaunch = 0
  /\ wg = 0
  /\ status = <<>>
  /\ now = 0
  /\ crashed = FALSE
  /\ launches = <<>>
  /\ samples = <<>>
  /\ sleepCalls = 0
  /\ enteredAt = 0

EtcdInit == PIdle /\ EInit

EtcdNext ==
  \/ \E a \in ActionValues, q \in ParamNames : ExecuteParamError(a, q)
  \/ \E p \in Providers, b \in BOOLEAN : ExecuteStart(p, b)
  \/ \E a \in ActionValues : ExecuteUnknown(a)
  \/ GatherClose
  \/ GatherWait
  \/ \E p \in Providers : GatherCollect(p)
  \/ \E g \in 1..Len(pollers) : PollerTimer(g)
  \/ \E g \in 1..Len(pollers) : PollerPoll(g)
  \/ \E g \in 1..Len(pollers) : PollerWrite(g)
  \/ \E g \in 1..Len(pollers) : PollerStop(g)

EtcdSpec == EtcdInit /\ [][EtcdNext]_vars

\* the Go scheduler runs every runnable goroutine: the caller inside
\* stopAndSummarize keeps stepping and a poll in flight returns; a select
\* with several ready cases picks one at random, so a case that is ready
\* again and again is taken in the end
EtcdFairSpec ==
  /\ EtcdSpec
  /\ WF_vars(GatherWait)
  /\ WF_vars(\E p \in Providers : GatherCollect(p))
  /\ \A g \in 1..MaxCalls : WF_vars(g <= Len(pollers) /\ PollerPoll(g))
  /\ \A g \in 1..MaxCalls : WF_vars(g <= Len(pollers) /\ PollerWrite(g))
  /\ \A g \in 1..MaxCalls : SF_vars(g <= Len(pollers) /\ PollerStop(g))

\* ============================================================== dispatch
Driver == Enter \/ Sleep \/ Start \/ Advance \/ Wait

Init == PInit /\ EInit

Next ==
  \/ Enter
  \/ Sleep
  \/ Start
  \/ Advance
  \/ Wait
  \/ \E k \in 1..n : ActionReturn(k)
  \/ \E k \in 1..n : ActionPanic(k)
  \/ Crash
  \/ Tick

Spec == Init /\ [][Next]_vars

\* the Go scheduler runs every runnable goroutine: the driving path keeps
\* stepping, an action that returns does return, an unrecovered panic ends
\* the process
FairSpec ==
  /\ Spec
  /\ WF_vars(Driver)
  /\ \A k \in 1..MaxActions : WF_vars(k <= n /\ ActionReturn(k))
  /\ \A k \in 1..MaxActions : WF_vars(k <= n /\ ActionPanic(k))
  /\ WF_vars(Crash)

\* ================================================================ claims
Launched == {k \in 1..n : status[k] # "pending"}
Running == {k \in 1..n : status[k] = "running"}
\* the goroutine of the action has ended and its wg.Done() has run
Completed == {k \in 1..n : status[k] \in {"done", "panicked"}}
AllReturn == \A k \in 1..n : actions[k] = "returns"

\* C1: when Execute returns no launched action is still running: the
\* completed actions, the launched actions and the input are equally many.
C1_ReturnAfterAllComplete ==
  pc = "returned" =>
    /\ Running = {}
    /\ Cardinality(Launched) = n
    /\ Cardinality(Completed) = n
    /\ Len(launches) = n

C1_Witness == pc = "returned" /\ n >= 2 /\ AllReturn

\* C2: every action is launched exactly once, in input order: the j-th launch
\* is action j, the launched actions are exactly the first Len(launches)
\* ones, and once the loop is over all n have been launched.
C2_LaunchOnceInOrder ==
  /\ Len(launches) <= n
  /\ \A j \in 1..Len(launches) : launches[j].idx = j
  /\ Launched = 1..Len(launches)
  /\ pc \in {"wait", "returned"} => Len(launches) = n

C2_Witness == pc = "returned" /\ Len(launches) >= 2

\* C3: a panic inside one action is isolated: it never stops the process
\* before Execute has returned and every action that returns has completed.
C3_FaultIsolated ==
  crashed =>
    /\ pc = "returned"
    /\ \A k \in 1..n : actions[k] = "returns" => status[k] = "done"

\* C4: while the loop is still launching, its next step never waits for an
\* action: whatever actions are running, the driving path can step.
C4_LaunchNeverWaits ==
  (pc \in {"sleep", "start", "advance"} /\ ~crashed) => ENABLED Driver

\* the second action has been launched while every launched action still runs
C4_Witness ==
  /\ Len(launches) >= 2
  /\ \A k \in 1..Len(launches) : status[k] = "running"

\* C5: every launch happens at a clock value not before its schedule point.
C5_NotBeforeSchedule ==
  \A j \in 1..Len(launches) : launches[j].at >= launches[j].sched

\* a launch that had to wait for a schedule point ahead of the clock
C5_Witness ==
  \E j \in 1..Len(launches) :
    /\ launches[j].sched >= 1
    /\ launches[j].at = launches[j].sched

\* C6: if every supplied action returns, Execute eventually returns.
C6_ExecuteTerminates == AllReturn ~> (pc = "returned")

C6_Witness == pc = "returned" /\ n >= 2 /\ AllReturn /\ now >= 1

\* C7: with zero actions Execute goes straight to the drain, which does not
\* block: no sleep, no launch, no inter-arrival sample.
C7_ZeroActions ==
  n = 0 =>
    /\ pc \in {"idle", "wait", "returned"}
    /\ sleepCalls = 0
    /\ launches = <<>>
    /\ samples = <<>>
    /\ wg = 0
    /\ pc = "wait" => ENABLED Wait

C7_Witness == n = 0 /\ pc = "returned"

\* C8: launch instants are non-decreasing in input order, and so are the
\* schedule points, every sampled inter-arrival duration being non-negative.
C8_NonDecreasing ==
  /\ \A j \in 1..(Len(launches) - 1) :
       /\ launches[j + 1].at >= launches[j].at
       /\ launches[j + 1].sched >= launches[j].sched
  /\ \A j \in 1..Len(samples) : samples[j] >= 0

AllPollersExited == \A g \in 1..Len(pollers) : pollers[g].pc = "exited"

\* C9: once a gather is past e.wg.Wait() every polling goroutine started
\* before it has terminated; a terminated poller stays terminated, and while
\* every poller is terminated (until a later "start") nothing polls and
\* nothing writes MaxDatabaseSize.
C9_GatherHaltsPolling ==
  /\ [](cpc = "collect" => AllPollersExited)
  /\ [][/\ \A g \in 1..Len(pollers) :
             pollers[g].pc = "exited" => pollers'[g] = pollers[g]
        /\ AllPollersExited => MaxDatabaseSize' = MaxDatabaseSize]_vars

\* a gather past the join of a poller that had recorded a database size
C9_Witness ==
  /\ cpc = "collect"
  /\ Len(pollers) >= 1
  /\ MaxDatabaseSize >= 1

\* the step is the return of an Execute call whose action is neither "start"
\* nor "gather"
UnknownActionCall ==
  /\ calls' # calls
  /\ lastAction' \notin {"start", "gather", "none"}

MeasurementUnchanged ==
  UNCHANGED <<stopCh, pollWg, pollers, MaxDatabaseSize, buckets>>

\* C10 as stated: every call with another action value returns the
\* "unknown action" error with no summaries and leaves the measurement alone.
C10_UnknownActionAlways ==
  [][UnknownActionCall =>
       /\ ret' = Return(<<>>, "unknown action")
       /\ MeasurementUnchanged]_vars

\* C10: a call with another action value returns no summaries and an error,
\* the "unknown action" error unless reading the provider or the host failed
\* (then that error), and leaves the measurement alone.
C10_UnknownAction ==
  [][UnknownActionCall =>
       /\ ret'.summaries = <<>>
       /\ ret'.err \in {"unknown action", "provider", "host"}
       /\ MeasurementUnchanged]_vars

\* an unknown action was refused while a poller was running
C10_Witness ==
  /\ lastAction = "reset"
  /\ ret = Return(<<>>, "unknown action")
  /\ \E g \in 1..Len(pollers) : pollers[g].pc # "exited"

\* the sum of the first m inter-arrival samples
RECURSIVE SumFirst(_)
SumFirst(m) == IF m = 0 THEN 0 ELSE SumFirst(m - 1) + samples[m]

\* C11: the schedule is accumulated from the previous schedule point: the
\* schedule point of the j-th launch is the instant read on entry plus the
\* first j-1 samples, whatever the clock did in between.
C11_ScheduleAccumulates ==
  /\ pc # "idle" => actionNextLaunch = enteredAt + SumFirst(Len(samples))
  /\ \A j \in 1..Len(launches) :
       launches[j].sched = enteredAt + SumFirst(j - 1)

\* a later action launched behind its schedule point, which a non-zero
\* sample had moved
C11_Witness ==
  \E j \in 2..Len(launches) :
    /\ launches[j].at > launches[j].sched
    /\ SumFirst(j - 1) >= 1

\* C12: the outstanding-work counter is the number of launched actions minus
\* the number of completed ones, never negative, and the drain can be passed
\* only after the last launch with no launched action still running.
C12_CounterRaceFree ==
  /\ wg = Cardinality(Launched) - Cardinality(Completed)
  /\ wg >= 0
  /\ ENABLED Wait => (Len(launches) = n /\ Running = {})

\* one action has completed while another is still in flight
C12_Witness ==
  /\ wg >= 1
  /\ Cardinality(Completed) >= 1

\* C13: every duration interArrivalTime returned is non-negative, the int
\* conversion included, and the draw p = 0 yields the duration 0.
C13_DurationNonNegative ==
  /\ \A j \in 1..Len(samples) : samples[j] >= 0
  /\ interArrivalTime(ExpectedActionsPerSecond, 0) = {0}

PhaseOf(p) ==
  CASE p = "idle" -> 0
    [] p \in {"sleep", "start", "advance"} -> 1
    [] p = "wait" -> 2
    [] p = "returned" -> 3

\* C15: a dispatch call only moves forward through Idle, Scheduling,
\* Draining, Done; nothing is launched once Draining has begun, Draining
\* begins only after the last launch, and the call ends in no state but Done.
C15_PhasesForward ==
  /\ [][/\ PhaseOf(pc') >= PhaseOf(pc)
        /\ PhaseOf(pc) >= 2 => launches' = launches]_vars
  /\ [](PhaseOf(pc) >= 2 => Len(launches) = n)
  /\ [](crashed => PhaseOf(pc) = 3)

\* the pollers between their read of MaxDatabaseSize and their write of it
Writers == {g \in 1..Len(pollers) : pollers[g].pc = "write"}

\* C16: MaxDatabaseSize is never accessed by two goroutines at once: at most
\* one poller is inside its read-and-write of the field, and the caller holds
\* the summary only while every poller has been joined.
C16_NoConcurrentAccess ==
  /\ Cardinality(Writers) <= 1
  /\ cpc = "collect" => AllPollersExited
  /\ ret.summaries # <<>> => AllPollersExited

\* C17: the stop channel is closed at most once: no gather applies close to
\* the channel an earlier gather has closed.
C17_ClosedAtMostOnce ==
  [][stopCh = "closed" => ~(lastAction' = "gather" /\ calls' # calls /\ closePanic')]_vars

\* C18: MaxDatabaseSize never decreases; outside a poller's write it is the
\* maximum of 0 and the sizes the successful polls returned; a failed poll
\* leaves it unchanged and takes the poller back to its select.
C18_MaxNeverDecreases ==
  /\ [][MaxDatabaseSize' >= MaxDatabaseSize]_vars
  /\ [](Writers = {} => MaxDatabaseSize = maxPolled)
  /\ [][\A g \in 1..Len(pollers) :
          (pollers[g].pc = "polling" /\ pollers'[g].pc \notin {"polling", "write"}) =>
            /\ pollers'[g].pc = "select"
            /\ MaxDatabaseSize' = MaxDatabaseSize]_vars

\* C19: a gather gets past the join of the pollers (wg.Wait returns) when
\* every poll in flight terminates, with or without an earlier start; every
\* poller, also one started after the gather, exits once the stop channel is
\* closed; one that polls at a positive interval does so at its next select
\* (with an interval of zero or less the timer case may be ready as well).
C19_GatherPassesJoin ==
  /\ (lastAction = "gather" /\ (cpc = "wait" \/ closePanic)) ~> (cpc = "collect")
  /\ \A g \in 1..MaxCalls :
       (g <= Len(pollers) /\ stopCh = "closed")
         ~> (g <= Len(pollers) /\ pollers[g].pc = "exited")
  /\ [][\A g \in 1..Len(pollers) :
          (stopCh = "closed" /\ pollers[g].pc = "select" /\ pollers[g].positive
             /\ pollers'[g].pc # "select") => pollers'[g].pc = "exited"]_vars

====
